---- MODULE Spec2Model ----
(***************************************************************************)
(* A model of SimpleExpressServer (src/src/http/SimpleExpressServer.ts):   *)
(* the per-connection framer, the request parser, the route table with its *)
(* compiled patterns, the middleware chain and the response writer.        *)
(*                                                                         *)
(* Text is a sequence of atoms.  An atom is a piece of text no operation   *)
(* of the server looks inside: one character where characters matter (the  *)
(* path, the body, digits, the separators " ", ":", "?") and a whole word  *)
(* where only equality matters (a method, a protocol version, a header     *)
(* name).  "\r\n" is one atom, CRLF.                                       *)
(***************************************************************************)
EXTENDS Integers, Sequences, FiniteSets, TLC

\* ------------------------------------------------------------------ bounds
\* Global middlewares registered with use().
MaxMw == 2
\* Routes registered in one table.
MaxRoutes == 2
\* Calls (advance, send, setting the status, deferring) that the user code
\* of one request makes.
MaxSteps == 2

\* ------------------------------------------------------------------- text
CRLF == "\r\n"
SP == " "
COLON == ":"
SLASH == "/"

Digits == {"0", "1", "2", "3"}

\* parseInt of one decimal digit.
DigitVal(d) ==
    CASE d = "0" -> 0 [] d = "1" -> 1 [] d = "2" -> 2 [] OTHER -> 3

RECURSIVE parseInt(_)
\* parseInt(text, 10) of a run of digits.
parseInt(ds) ==
    IF ds = <<>> THEN 0
    ELSE 10 * parseInt(SubSeq(ds, 1, Len(ds) - 1)) + DigitVal(ds[Len(ds)])

RECURSIVE byteLength(_)
\* Buffer.byteLength: the atoms are ASCII text, one byte a character.
byteLength(s) ==
    IF s = <<>> THEN 0 ELSE Len(Head(s)) + byteLength(Tail(s))

\* Whether pat occurs in s at position i (1-based).
OccursAt(s, pat, i) ==
    /\ i >= 1
    /\ i + Len(pat) - 1 <= Len(s)
    /\ SubSeq(s, i, i + Len(pat) - 1) = pat

\* String.prototype.indexOf, 1-based; 0 stands for JavaScript's -1.
indexOf(s, pat) ==
    LET hits == {i \in 1..Len(s) : OccursAt(s, pat, i)}
    IN IF hits = {} THEN 0 ELSE CHOOSE i \in hits : \A j \in hits : i <= j

RECURSIVE split(_, _)
\* String.prototype.split with a non-empty separator: every piece, the empty
\* ones included.
split(s, sep) ==
    LET i == indexOf(s, sep)
    IN IF i = 0 THEN <<s>>
       ELSE <<SubSeq(s, 1, i - 1)>> \o split(SubSeq(s, i + Len(sep), Len(s)), sep)

RECURSIVE trim(_)
\* String.prototype.trim over the white space of the alphabet.
trim(s) ==
    IF s = <<>> THEN s
    ELSE IF Head(s) \in {SP, CRLF} THEN trim(Tail(s))
    ELSE IF s[Len(s)] \in {SP, CRLF} THEN trim(SubSeq(s, 1, Len(s) - 1))
    ELSE s

\* String.prototype.toLowerCase on one atom: the header names are the atoms
\* with capitals.
LowerAtom(a) ==
    CASE a = "Content-Length" -> "content-length"
      [] a = "X-Content-Length" -> "x-content-length"
      [] a = "Content-Type" -> "content-type"
      [] a = "Host" -> "host"
      [] OTHER -> a

toLowerCase(s) == [i \in 1..Len(s) |-> LowerAtom(s[i])]

RECURSIVE Join(_, _)
\* The pieces of a sequence of texts joined by sep.
Join(pieces, sep) ==
    IF pieces = <<>> THEN <<>>
    ELSE IF Len(pieces) = 1 THEN pieces[1]
    ELSE pieces[1] \o sep \o Join(Tail(pieces), sep)

\* ------------------------------------------------------------ route table
\* The text compilePath puts in place of a parameter, one atom of the
\* pattern: a group capturing one or more characters other than "/".
CAP == "([^/]+)"

\* The end of the run of characters other than "/" that starts at i.
RECURSIVE RunEnd(_, _)
RunEnd(s, i) ==
    IF i > Len(s) \/ s[i] = SLASH THEN i - 1 ELSE RunEnd(s, i + 1)

RECURSIVE ReplaceParams(_, _)
\* path.replace(/:([^\/]+)/g, ...) from position i on: the rewritten text
\* and the keys pushed, in order.
ReplaceParams(path, i) ==
    IF i > Len(path) THEN [text |-> <<>>, keys |-> <<>>]
    ELSE IF path[i] = COLON /\ RunEnd(path, i + 1) >= i + 1
    THEN LET e == RunEnd(path, i + 1)
             rest == ReplaceParams(path, e + 1)
         IN [text |-> <<CAP>> \o rest.text,
             keys |-> <<SubSeq(path, i + 1, e)>> \o rest.keys]
    ELSE LET rest == ReplaceParams(path, i + 1)
         IN [text |-> <<path[i]>> \o rest.text, keys |-> rest.keys]

\* The characters new RegExp reads as operators, within the alphabet.
DOT == "."
PLUS == "+"

SyntaxError == [ok |-> FALSE, items |-> <<>>]

RECURSIVE ParseRegex(_)
\* new RegExp("^" + text + "$") as a list of items, read from the end of
\* the text: each item a character class with its quantifier.  A "+" with
\* nothing to repeat (first in the pattern, or after another "+") makes
\* new RegExp throw a SyntaxError.
ParseRegex(text) ==
    IF text = <<>> THEN [ok |-> TRUE, items |-> <<>>]
    ELSE LET n == Len(text)
             last == text[n]
         IN IF last = PLUS
            THEN IF n = 1 \/ text[n - 1] = PLUS THEN SyntaxError
                 ELSE LET before == ParseRegex(SubSeq(text, 1, n - 2))
                      IN IF ~before.ok THEN SyntaxError
                         ELSE [ok |-> TRUE,
                               items |-> Append(before.items,
                                                [atom |-> text[n - 1], plus |-> TRUE])]
            ELSE LET before == ParseRegex(SubSeq(text, 1, n - 1))
                 IN IF ~before.ok THEN SyntaxError
                    ELSE [ok |-> TRUE,
                          items |-> Append(before.items,
                                           [atom |-> last, plus |-> FALSE])]

\* Whether the pattern atom a accepts the text s as one repetition.  "." is
\* any character but a line terminator; the group is a run of characters
\* other than "/"; anything else is itself.
AtomAccepts(a, s) ==
    CASE a = DOT -> Len(s) = 1 /\ s[1] # CRLF
      [] a = CAP -> Len(s) >= 1 /\ \A k \in 1..Len(s) : s[k] # SLASH
      [] OTHER -> s = <<a>>

\* The lengths of text one repetition of the atom can take at position p.
RepLengths(a, s, p) ==
    {l \in 1..(Len(s) - p + 1) : AtomAccepts(a, SubSeq(s, p, p + l - 1))}

NoMatch == [ok |-> FALSE, caps |-> <<>>]

RECURSIVE MatchItems(_, _, _, _)
RECURSIVE MatchPlus(_, _, _, _, _)
\* The backtracking match of items[i..] against s from position p, anchored
\* at the end: NoMatch, or the groups' captures of the first match in the
\* engine's order (greedy: the longest repetition first).
MatchItems(items, i, s, p) ==
    IF i > Len(items)
    THEN (IF p = Len(s) + 1 THEN [ok |-> TRUE, caps |-> <<>>] ELSE NoMatch)
    ELSE LET lens == RepLengths(items[i].atom, s, p)
         IN IF lens = {} THEN NoMatch
            ELSE MatchPlus(items, i, s, p, CHOOSE l \in lens : \A m \in lens : l >= m)

\* Item i takes l characters (the longest untried length), then either
\* repeats (if quantified) or hands over to the next item; on failure the
\* next shorter length is tried.
MatchPlus(items, i, s, p, l) ==
    LET it == items[i]
        lens == RepLengths(it.atom, s, p)
        again == IF it.plus /\ p + l <= Len(s)
                 THEN MatchItems(items, i, s, p + l)
                 ELSE NoMatch
        onward == MatchItems(items, i + 1, s, p + l)
        cap == IF it.atom = CAP THEN <<SubSeq(s, p, p + l - 1)>> ELSE <<>>
        shorter == {m \in lens : m < l}
    IN IF again.ok THEN again
       ELSE IF onward.ok THEN [ok |-> TRUE, caps |-> cap \o onward.caps]
       ELSE IF shorter = {} THEN NoMatch
       ELSE MatchPlus(items, i, s, p, CHOOSE m \in shorter : \A k \in shorter : m >= k)

\* regex.exec(pathname): NoMatch for null, else the captures match[1..].
exec(regex, pathname) == MatchItems(regex, 1, pathname, 1)

\* compilePath: the pattern and the keys of a path template; ok is FALSE
\* when new RegExp throws.
compilePath(path) ==
    LET r == ReplaceParams(path, 1)
        re == ParseRegex(r.text)
    IN [ok |-> re.ok, regex |-> re.items, keys |-> r.keys]

\* The methods the route table is keyed by in the model.
MethodNames == {"GET", "HEAD", "POST"}

\* method.toUpperCase() in route().
UpperMethod(m) ==
    CASE m = "get" -> "GET" [] m = "head" -> "HEAD" [] m = "post" -> "POST"
      [] OTHER -> m

\* addRoute on the table rs: the compiled route is appended to its method's
\* list.  When compilePath throws, the exception leaves addRoute before the
\* push and the table holds what it held.
addRoute(rs, method, path, handler) ==
    LET c == compilePath(path)
    IN IF ~c.ok THEN rs
       ELSE [rs EXCEPT ![method] =
                Append(@, [path |-> path, handler |-> handler,
                           regex |-> c.regex, keys |-> c.keys])]

\* The params object findRoute builds: keys.forEach assigns in order, so a
\* key that occurs twice keeps its last capture.
ParamsOf(keys, match) ==
    [k \in {keys[i] : i \in 1..Len(keys)} |->
        match[CHOOSE i \in 1..Len(keys) :
                 keys[i] = k /\ \A j \in 1..Len(keys) : keys[j] = k => j <= i]]

NoRoute == [found |-> FALSE]

RECURSIVE FirstMatch(_, _, _)
\* The loop of findRoute over one method's list, from index i.
FirstMatch(list, i, pathname) ==
    IF i > Len(list) THEN NoRoute
    ELSE LET match == exec(list[i].regex, pathname)
         IN IF match.ok
            THEN [found |-> TRUE, index |-> i, path |-> list[i].path,
                  handler |-> list[i].handler, keys |-> list[i].keys,
                  params |-> ParamsOf(list[i].keys, match.caps)]
            ELSE FirstMatch(list, i + 1, pathname)

\* findRoute(method, pathname): this.routes[method] || [] searched in
\* registration order.
findRoute(rs, method, pathname) ==
    IF method \in DOMAIN rs THEN FirstMatch(rs[method], 1, pathname) ELSE NoRoute

\* --------------------------------------------------------- response writer
DigitAtoms == <<"0", "1", "2", "3", "4", "5", "6", "7", "8", "9">>

RECURSIVE toString(_)
\* Number.prototype.toString of a natural number: its decimal digits.
toString(n) ==
    IF n < 10 THEN <<DigitAtoms[n + 1]>>
    ELSE toString(n \div 10) \o <<DigitAtoms[(n % 10) + 1]>>

\* getStatusMessage: the fixed table of reason phrases.
getStatusMessage(statusCode) ==
    CASE statusCode = 200 -> "OK"
      [] statusCode = 201 -> "Created"
      [] statusCode = 204 -> "No Content"
      [] statusCode = 400 -> "Bad Request"
      [] statusCode = 404 -> "Not Found"
      [] statusCode = 405 -> "Method Not Allowed"
      [] statusCode = 429 -> "Too Many Requests"
      [] statusCode = 500 -> "Internal Server Error"
      [] OTHER -> "Unknown Status"

\* headers[key] = value on an object kept as the list of its entries in
\* insertion order: an existing key keeps its place.
SetHeader(headers, key, value) ==
    IF \E i \in 1..Len(headers) : headers[i][1] = key
    THEN [i \in 1..Len(headers) |->
             IF headers[i][1] = key THEN <<key, value>> ELSE headers[i]]
    ELSE Append(headers, <<key, value>>)

RECURSIVE HeaderLines(_)
\* The loop over Object.entries(headers): "key: value\r\n" each.
HeaderLines(headers) ==
    IF headers = <<>> THEN <<>>
    ELSE <<Head(headers)[1], COLON, SP>> \o Head(headers)[2] \o <<CRLF>>
         \o HeaderLines(Tail(headers))

\* A body is a string or a Buffer of the same text.
StringBody(text) == [buffer |-> FALSE, text |-> text]
BufferBody(text) == [buffer |-> TRUE, text |-> text]

\* The headers object as sendResponse leaves it: Content-Length computed
\* from the body, Connection forced to close.
FinalHeaders(headers, body) ==
    SetHeader(SetHeader(headers, "Content-Length", toString(byteLength(body.text))),
              "Connection", <<"close">>)

\* The status line, the header lines and the blank line of a response.
ResponseHead(statusCode, headers, body) ==
    <<"HTTP/1.1", SP>> \o toString(statusCode) \o <<SP, getStatusMessage(statusCode), CRLF>>
    \o HeaderLines(FinalHeaders(headers, body)) \o <<CRLF>>

Write(data) == [op |-> "write", data |-> data]
End == [op |-> "end"]

\* Mutant of SocketCalls: the socket is ended once the head is written, and
\* a Buffer body is written after that.
SocketCallsEndEarly(statusCode, headers, body, suppressBody) ==
    LET response == ResponseHead(statusCode, headers, body)
    IN IF ~suppressBody
       THEN IF body.buffer
            THEN <<Write(response), End, Write(body.text)>>
            ELSE <<Write(response \o body.text), End>>
       ELSE <<Write(response), End>>

\* The calls sendResponse makes on the socket, in order.
SocketCalls(statusCode, headers, body, suppressBody) ==
    LET response == ResponseHead(statusCode, headers, body)
    IN IF ~suppressBody
       THEN IF body.buffer
            THEN <<Write(response), Write(body.text), End>>
            ELSE <<Write(response \o body.text), End>>
       ELSE <<Write(response), End>>

\* The calls made on a socket: the first connection's are kept in out, the
\* second's in out2.
Called(m, socket, calls) ==
    IF socket = 1 THEN [m EXCEPT !.out = @ \o calls]
    ELSE [m EXCEPT !.out2 = @ \o calls]

\* sendResponse on a machine m = [ctxs, out, out2, stack] for the headers
\* object of context c (0: the object literal of the 400 reply): the socket
\* calls are appended and the headers object is left mutated.
sendResponse(m, socket, c, statusCode, headers, body, suppressBody) ==
    LET m1 == Called(m, socket, SocketCalls(statusCode, headers, body, suppressBody))
    IN IF c = 0 THEN m1
       ELSE [m1 EXCEPT !.ctxs[c].headers = FinalHeaders(headers, body)]

\* Mutant of SuppressBody: the HEAD fallback leaves res.send as it was.
SuppressBodyNotReplaced(x) == x.req.method = <<"HEAD">>

\* The suppressBody argument res.send passes.  Until the HEAD fallback
\* replaces it, the closure suppresses the body when req.method is HEAD at
\* the time of the call; the replacement always suppresses it.
SuppressBody(x) == x.sendReplaced \/ x.req.method = <<"HEAD">>

\* Mutant of SocketOf: every response object writes to the first socket.
SocketShared(x) == 1

\* The socket the closures of a response object have captured: the one its
\* handleRequest was called with.
SocketOf(x) == x.socket

\* res.send(body) of context c.  Ghost: the arguments of the call are kept
\* in the context's list of sends.
resSend(m, c, body) ==
    LET x == m.ctxs[c]
        m1 == [m EXCEPT !.ctxs[c].sends =
                  Append(@, [statusCode |-> x.statusCode, headers |-> x.headers,
                             body |-> body])]
    IN sendResponse(m1, SocketOf(x), c, x.statusCode, x.headers, body,
                    SuppressBody(x))

\* res.setHeader(key, value) of context c.
resSetHeader(m, c, key, value) ==
    [m EXCEPT !.ctxs[c].headers = SetHeader(@, key, value)]

\* res.json(data): the content type, then send of the serialized data.
resJson(m, c, text) ==
    resSend(resSetHeader(m, c, "Content-Type", <<"application/json">>), c, StringBody(text))

\* --------------------------------------------------------- middleware chain
\* The entries of a chain: a global middleware (its place in the list), a
\* route handler (its registration number) and the handler handleRequest
\* appends when no route matches.
MwEntry(i) == [kind |-> "mw", id |-> i]
RouteEntry(k) == [kind |-> "route", id |-> k]
NotFoundEntry == [kind |-> "notfound", id |-> 0]

Frame(c, e, cb) == [ctx |-> c, entry |-> e, cb |-> cb]

\* Mutant of notFoundHandler: the status is left as it is.
notFoundHandlerKeepsStatus(m, c) ==
    resSend(m, c, StringBody(<<"Not Found">>))

\* The handler of lines 311-314: status 404, send "Not Found".
notFoundHandler(m, c) ==
    resSend([m EXCEPT !.ctxs[c].statusCode = 404], c, StringBody(<<"Not Found">>))

\* Mutant of next: pop() for shift(), the last remaining entry is taken.
nextPops(m, c) ==
    LET x == m.ctxs[c]
    IN IF x.queue = <<>> THEN m
       ELSE LET e == x.queue[Len(x.queue)]
                m1 == [m EXCEPT !.ctxs[c].queue = SubSeq(@, 1, Len(@) - 1),
                                !.ctxs[c].log = Append(@, e)]
            IN IF e.kind = "notfound"
               THEN resSend([m1 EXCEPT !.ctxs[c].statusCode = 404], c,
                            StringBody(<<"Not Found">>))
               ELSE [m1 EXCEPT !.stack = Append(@, Frame(c, e, FALSE))]

\* Mutant of next: the first remaining entry is invoked and left in the
\* array.
nextPeeks(m, c) ==
    LET x == m.ctxs[c]
    IN IF x.queue = <<>> THEN m
       ELSE LET e == Head(x.queue)
                m1 == [m EXCEPT !.ctxs[c].log = Append(@, e)]
            IN IF e.kind = "notfound" THEN notFoundHandler(m1, c)
               ELSE [m1 EXCEPT !.stack = Append(@, Frame(c, e, FALSE))]

\* next() of the chain of context c: the first remaining entry is shifted
\* and invoked.  The built-in handler runs to its end here; an entry of user
\* code becomes the running frame, and what it does are the User actions.
next(m, c) ==
    LET x == m.ctxs[c]
    IN IF x.queue = <<>> THEN m
       ELSE LET e == Head(x.queue)
                m1 == [m EXCEPT !.ctxs[c].queue = Tail(@),
                                !.ctxs[c].log = Append(@, e)]
            IN IF e.kind = "notfound" THEN notFoundHandler(m1, c)
               ELSE [m1 EXCEPT !.stack = Append(@, Frame(c, e, FALSE))]

\* Mutant of catchError: after the 500 reply the chain goes on.
catchErrorGoesOn(m, c) ==
    next(resSend([m EXCEPT !.ctxs[c].statusCode = 500], c,
                 StringBody(<<"Internal Server Error">>)), c)

\* The catch of next(): status 500 and the fixed body, on the response of
\* the chain whose entry threw.
catchError(m, c) ==
    resSend([m EXCEPT !.ctxs[c].statusCode = 500], c,
            StringBody(<<"Internal Server Error">>))

\* ------------------------------------------------------------------ parser
\* "\r\n\r\n", the end of the header block.
HeaderEnd == <<CRLF, CRLF>>

\* Mutant of Malformed: the protocol version is not looked at.
MalformedIgnoresProtocol(method, fullUrl, protocol) ==
    method = <<>> \/ fullUrl = <<>>

\* The test of line 209: a token of the request line is undefined or empty.
Malformed(method, fullUrl, protocol) ==
    method = <<>> \/ fullUrl = <<>> \/ protocol = <<>>

\* The i-th element of a destructured array; <<>> stands for both undefined
\* and the empty string, which the parser's tests do not tell apart.
Nth(pieces, i) == IF i <= Len(pieces) THEN pieces[i] ELSE <<>>

\* url.parse(fullUrl).pathname || "/": the target up to its query string.
Pathname(fullUrl) ==
    LET q == indexOf(fullUrl, <<"?">>)
        p == IF q = 0 THEN fullUrl ELSE SubSeq(fullUrl, 1, q - 1)
    IN IF p = <<>> THEN <<SLASH>> ELSE p

\* decodeURIComponent on one atom: an escape decodes to its character, a
\* "%" that starts no escape is malformed.
DecodeAtom(a) == CASE a = "%2F" -> SLASH [] a = "%61" -> "a" [] OTHER -> a

\* decodeURIComponent: ok is FALSE when it throws URIError.
decodeURIComponent(s) ==
    [ok |-> \A i \in 1..Len(s) : s[i] # "%",
     text |-> [i \in 1..Len(s) |-> DecodeAtom(s[i])]]

\* url.parse(fullUrl, true) hands the text after the first "?" to
\* querystring.parse.
Search(fullUrl) ==
    LET q == indexOf(fullUrl, <<"?">>)
    IN IF q = 0 THEN <<>> ELSE SubSeq(fullUrl, q + 1, Len(fullUrl))

\* querystring.unescape: "+" is a space, an escape decodes to its character
\* and a malformed escape is left as it is (it does not throw).
qsUnescape(s) == [i \in 1..Len(s) |-> IF s[i] = PLUS THEN SP ELSE DecodeAtom(s[i])]

\* Mutant of AddPair: a repeated key keeps its last value only.
AddPairLastWins(obj, piece) ==
    LET eq == indexOf(piece, <<"=">>)
        key == qsUnescape(IF eq = 0 THEN piece ELSE SubSeq(piece, 1, eq - 1))
        value == qsUnescape(IF eq = 0 THEN <<>> ELSE SubSeq(piece, eq + 1, Len(piece)))
    IN IF piece = <<>> THEN obj
       ELSE [k \in DOMAIN obj \cup {key} |->
                IF k = key THEN [array |-> FALSE, values |-> <<value>>] ELSE obj[k]]

\* One pair of the query string added to the object querystring.parse
\* builds (a function from key to value; a value is a string, array FALSE
\* with one text, or an array of strings): an empty piece is skipped, a
\* piece without "=" has the empty value, the first occurrence of a key
\* stores a string, a later one turns it into an array or pushes onto it.
AddPair(obj, piece) ==
    LET eq == indexOf(piece, <<"=">>)
        key == qsUnescape(IF eq = 0 THEN piece ELSE SubSeq(piece, 1, eq - 1))
        value == qsUnescape(IF eq = 0 THEN <<>> ELSE SubSeq(piece, eq + 1, Len(piece)))
    IN IF piece = <<>> THEN obj
       ELSE [k \in DOMAIN obj \cup {key} |->
                IF k # key THEN obj[k]
                ELSE IF key \in DOMAIN obj
                THEN [array |-> TRUE, values |-> Append(obj[key].values, value)]
                ELSE [array |-> FALSE, values |-> <<value>>]]

RECURSIVE AddPairs(_, _)
\* The loop of querystring.parse over the pieces between the "&".
AddPairs(obj, pieces) ==
    IF pieces = <<>> THEN obj
    ELSE AddPairs(AddPair(obj, Head(pieces)), Tail(pieces))

NoQuery == [k \in {} |-> [array |-> FALSE, values |-> <<>>]]

\* parsedUrl.query, and req.query after the filter of line 233, which
\* drops nothing: querystring.parse stores no undefined.
parseQuery(fullUrl) == AddPairs(NoQuery, split(Search(fullUrl), <<"&">>))

RECURSIVE ParseHeaders(_, _)
\* The forEach over the header fields, onto the headers object so far (a
\* function from key to value): a field without ":" is skipped, the key is
\* trimmed and lower-cased, the value trimmed, a repeated key overwritten.
ParseHeaders(fields, headers) ==
    IF fields = <<>> THEN headers
    ELSE LET field == Head(fields)
             separatorIndex == indexOf(field, <<COLON>>)
         IN IF separatorIndex = 0 THEN ParseHeaders(Tail(fields), headers)
            ELSE LET key == toLowerCase(trim(SubSeq(field, 1, separatorIndex - 1)))
                     value == trim(SubSeq(field, separatorIndex + 1, Len(field)))
                 IN ParseHeaders(Tail(fields),
                        [k \in DOMAIN headers \cup {key} |->
                            IF k = key THEN value ELSE headers[k]])

NoHeaders == [k \in {} |-> <<>>]

\* The JSON texts of the alphabet and JSON.parse of them: ok is FALSE when
\* JSON.parse throws SyntaxError.
JsonParse(body) ==
    CASE body = <<"1">> -> [ok |-> TRUE, value |-> [json |-> "number", n |-> 1]]
      [] body = <<"{", "}">> -> [ok |-> TRUE, value |-> [json |-> "object", a |-> 0]]
      [] body = <<"{", "\"a\"", ":", "1", "}">> ->
             [ok |-> TRUE, value |-> [json |-> "object", a |-> 1]]
      [] OTHER -> [ok |-> FALSE, value |-> [json |-> "null"]]

\* contentType.includes(word): the content types are atoms.
Includes(contentType, word) == \E i \in 1..Len(contentType) : contentType[i] = word

\* Mutant of parseRequestBody: a JSON body that does not parse is handed on
\* as its text.
parseRequestBodyKeepsText(body, headers) ==
    IF <<"content-type">> \notin DOMAIN headers \/ headers[<<"content-type">>] = <<>>
    THEN [kind |-> "raw", text |-> body]
    ELSE LET contentType == headers[<<"content-type">>]
         IN IF Includes(contentType, "application/json")
            THEN (IF JsonParse(body).ok
                  THEN [kind |-> "json", value |-> JsonParse(body).value]
                  ELSE [kind |-> "raw", text |-> body])
            ELSE IF Includes(contentType, "application/x-www-form-urlencoded")
            THEN [kind |-> "form", pairs |-> split(body, <<"&">>)]
            ELSE [kind |-> "raw", text |-> body]

\* parseRequestBody: the raw text without a content type or with one that is
\* not recognised, the parsed value for JSON (null when parsing throws), the
\* key/value object for a form.
parseRequestBody(body, headers) ==
    IF <<"content-type">> \notin DOMAIN headers \/ headers[<<"content-type">>] = <<>>
    THEN [kind |-> "raw", text |-> body]
    ELSE LET contentType == headers[<<"content-type">>]
         IN IF Includes(contentType, "application/json")
            THEN (IF JsonParse(body).ok
                  THEN [kind |-> "json", value |-> JsonParse(body).value]
                  ELSE [kind |-> "null"])
            ELSE IF Includes(contentType, "application/x-www-form-urlencoded")
            THEN [kind |-> "form", pairs |-> split(body, <<"&">>)]
            ELSE [kind |-> "raw", text |-> body]

Range(seq) == {seq[i] : i \in 1..Len(seq)}

\* The key of the route table for a method text.
MethodKey(method) == IF Len(method) = 1 THEN method[1] ELSE "?"

\* Mutant of Registry: the chain is the registry itself, not a copy: the
\* final handler was pushed onto it and the first entry shifted off it.
RegistryAliased(mws, chain) == Tail(chain)

\* this.middlewares once handleRequest has built the chain array from it:
\* the array is a copy ([...this.middlewares]), so the push of the final
\* handler and the shifts of executeMiddlewares leave the registry as it
\* was.
Registry(mws, chain) == mws

\* handleRequest(socket, requestData) on machine m with the server's
\* middlewares mws and route table rs.  The result: the machine after it,
\* whether an exception left it uncaught, and what it did (the ghost record
\* of the call: the message, whether it was refused with 400, the body
\* handed to parseRequestBody, the findRoute calls, the context created).
handleRequest(m, socket, mws, rs, requestData) ==
    LET parts == split(requestData, HeaderEnd)
        headerPart == parts[1]
        bodyPart == Nth(parts, 2)
        headerLines == split(headerPart, <<CRLF>>)
        requestLine == headerLines[1]
        headerFields == Tail(headerLines)
        tokens == split(requestLine, <<SP>>)
        method == Nth(tokens, 1)
        fullUrl == Nth(tokens, 2)
        protocol == Nth(tokens, 3)
        bad == [raw |-> requestData, refused |-> TRUE, body |-> <<>>,
                finds |-> <<>>, ctx |-> 0, socket |-> socket]
    IN IF Malformed(method, fullUrl, protocol)
       THEN [m |-> sendResponse(m, socket, 0, 400,
                                <<<<"Content-Type", <<"text/plain">>>>>>,
                                StringBody(<<"Bad Request">>), FALSE),
             thrown |-> FALSE, info |-> bad]
       ELSE LET decoded == decodeURIComponent(Pathname(fullUrl))
                pathname == decoded.text
                headers == ParseHeaders(headerFields, NoHeaders)
                first == findRoute(rs, MethodKey(method), pathname)
                tryGet == ~first.found /\ method = <<"HEAD">>
                second == IF tryGet THEN findRoute(rs, "GET", pathname) ELSE first
                route == IF tryGet THEN second ELSE first
                fallback == tryGet /\ second.found
                finds == <<[method |-> MethodKey(method), pathname |-> pathname]>>
                         \o (IF tryGet THEN <<[method |-> "GET", pathname |-> pathname]>>
                             ELSE <<>>)
                c == Len(m.ctxs) + 1
                chain == mws \o (IF route.found THEN <<route.handler>>
                                 ELSE <<NotFoundEntry>>)
                ctx == [req |-> [method |-> IF fallback THEN <<"GET">> ELSE method,
                                 url |-> fullUrl,
                                 headers |-> headers,
                                 body |-> parseRequestBody(bodyPart, headers),
                                 params |-> IF route.found THEN route.params
                                            ELSE NoHeaders,
                                 query |-> parseQuery(fullUrl)],
                        socket |-> socket,
                        statusCode |-> 200,
                        headers |-> <<>>,
                        sendReplaced |-> fallback,
                        queue |-> chain,
                        log |-> <<>>,
                        steps |-> 0,
                        sends |-> <<>>,
                        adv |-> [e \in Range(chain) |-> 0],
                        sent |-> [e \in Range(chain) |-> 0],
                        threw |-> {}]
                info == [raw |-> requestData, refused |-> FALSE, body |-> bodyPart,
                         finds |-> finds, ctx |-> c, socket |-> socket]
            IN IF ~decoded.ok
               THEN [m |-> m, thrown |-> TRUE,
                     info |-> [info EXCEPT !.finds = <<>>, !.ctx = 0]]
               ELSE [m |-> next([m EXCEPT !.ctxs = Append(@, ctx),
                                          !.middlewares = Registry(mws, chain)],
                                c),
                     thrown |-> FALSE, info |-> info]

\* ------------------------------------------------------------------ framer
\* Whether /Content-Length: (\d+)/i matches at position i of the data: the
\* words "content-length" in any case (they end the atom, whatever precedes
\* them in it), ": ", and at least one digit.
EndsWithContentLength(a) == LowerAtom(a) \in {"content-length", "x-content-length"}

MatchesAt(data, i) ==
    /\ i + 3 <= Len(data)
    /\ EndsWithContentLength(data[i])
    /\ data[i + 1] = COLON
    /\ data[i + 2] = SP
    /\ data[i + 3] \in Digits

RECURSIVE DigitsEnd(_, _)
\* The end of the run of digits that starts at i: (\d+) is greedy.
DigitsEnd(data, i) ==
    IF i > Len(data) \/ data[i] \notin Digits THEN i - 1 ELSE DigitsEnd(data, i + 1)

\* contentLengthMatch ? parseInt(contentLengthMatch[1], 10) : 0, for the
\* first match in the data.
contentLength(data) ==
    LET hits == {i \in 1..Len(data) : MatchesAt(data, i)}
    IN IF hits = {} THEN 0
       ELSE LET i == CHOOSE h \in hits : \A j \in hits : h <= j
            IN parseInt(SubSeq(data, i + 3, DigitsEnd(data, i + 3)))

\* Whether the data callback hands the accumulated data to handleRequest.
MessageComplete(data) ==
    /\ indexOf(data, HeaderEnd) # 0
    /\ LET bodyStartIndex == indexOf(data, HeaderEnd) + Len(HeaderEnd)
           bodyData == SubSeq(data, bodyStartIndex, Len(data))
       IN byteLength(bodyData) >= contentLength(data)

\* ------------------------------------------------------------------- state
VARIABLES
    middlewares,  \* this.middlewares: the global middlewares, in order
    routes,       \* this.routes: method -> the compiled routes, in order
    listening,    \* listen() was called: the setup is over
    stream,       \* the text the client has yet to send on the connection
    requestData,  \* the buffer of handleConnection
    out,          \* the calls made on the socket, in order
    stream2,      \* a second connection: the text its client has yet to send,
    requestData2, \* the buffer of its handleConnection
    out2,         \* and the calls made on its socket
    errors,       \* ghost: one record an "error" event of the first socket
    ctxs,         \* one context a request that reached the chain: req, res
                  \* and the chain's own array
    stack,        \* the frames of user code on the call stack
    pending,      \* the callbacks user code has deferred
    handled,      \* ghost: one record a call of handleRequest
    crashed,      \* an exception reached the event loop uncaught
    loaded,       \* ghost: one record a call of addPlugin
    options,      \* rateLimitPlugin: its options, limit and windowMs
    requests,     \* its map from an IP address to a count and a timestamp
    now,          \* Date.now()
    served,       \* ghost: one record a call of the rateLimiter middleware
    interceptors, \* AxiosClone: this.interceptors, request and response
    retryOptions, \* this.retryOptions
    promise       \* one call of request(): where it is and what it holds

vars == <<middlewares, routes, listening, stream, requestData, out, stream2,
          requestData2, out2, errors, ctxs, stack, pending, handled, crashed,
          loaded, options, requests, now, served, interceptors, retryOptions,
          promise>>

\* The rate limiter of myPlugin.ts.
limiter == <<options, requests, now, served>>

\* The client of axiosClone.ts.
client == <<interceptors, retryOptions, promise>>

\* The server of SimpleExpressServer.ts and its connections.
express == <<middlewares, routes, listening, stream, requestData, out, stream2,
             requestData2, out2, errors, ctxs, stack, pending, handled,
             crashed, loaded>>

\* The second connection.
peer == <<stream2, requestData2, out2>>

server == <<middlewares, routes, listening>>

NoRoutes == [mth \in MethodNames |-> <<>>]

\* The routes registered so far, over all methods.
RouteCount(rs) == Len(rs["GET"]) + Len(rs["HEAD"]) + Len(rs["POST"])

Machine == [ctxs |-> ctxs, out |-> out, out2 |-> out2, stack |-> stack,
            middlewares |-> middlewares]

\* The machine's parts become the next state's.
Becomes(m) ==
    /\ ctxs' = m.ctxs
    /\ out' = m.out
    /\ out2' = m.out2
    /\ stack' = m.stack
    /\ middlewares' = m.middlewares

\* ------------------------------------------------------------------- setup
\* use(middleware).
Use ==
    /\ ~listening
    /\ Len(middlewares) < MaxMw
    /\ middlewares' = Append(middlewares, MwEntry(Len(middlewares) + 1))
    /\ UNCHANGED <<routes, listening, stream, requestData, out, peer, errors,
                   limiter, client,
                   ctxs, stack,
                   pending, handled, crashed, loaded>>

\* get(path, handler).
Get(path) ==
    /\ ~listening
    /\ RouteCount(routes) < MaxRoutes
    /\ routes' = addRoute(routes, "GET", path, RouteEntry(RouteCount(routes) + 1))
    /\ UNCHANGED <<middlewares, listening, stream, requestData, out, peer, errors,
                   limiter, client,
                   ctxs, stack,
                   pending, handled, crashed, loaded>>

\* route(method, path, handler).
Route(method, path) ==
    /\ ~listening
    /\ RouteCount(routes) < MaxRoutes
    /\ routes' = addRoute(routes, UpperMethod(method), path,
                          RouteEntry(RouteCount(routes) + 1))
    /\ UNCHANGED <<middlewares, listening, stream, requestData, out, peer, errors,
                   limiter, client,
                   ctxs, stack,
                   pending, handled, crashed, loaded>>

\* listen(): connections are accepted from here on.
Listen ==
    /\ ~listening
    /\ listening' = TRUE
    /\ UNCHANGED <<middlewares, routes, stream, requestData, out, peer, errors,
                   limiter, client,
                   ctxs, stack,
                   pending, handled, crashed, loaded>>

\* ----------------------------------------------------------------- plugins
\* Calls of addPlugin in one setup, and plugins in one call.
MaxLoads == 1
MaxPlugins == 2

\* A plugin of the model is what it does with the server it is given: it
\* calls app.use() a number of times, then returns or throws.
PluginKinds == [uses : 0..1, throws : BOOLEAN]

RECURSIVE PluginLists(_)
\* The argument lists of addPlugin, of n plugins at most.
PluginLists(n) ==
    IF n = 0 THEN {<<>>}
    ELSE PluginLists(n - 1)
         \cup {Append(ps, p) : ps \in {l \in PluginLists(n - 1) : Len(l) = n - 1},
                                p \in PluginKinds}

RECURSIVE pushes(_, _)
\* this.middlewares after n calls of use() by a plugin.
pushes(mws, n) ==
    IF n = 0 THEN mws ELSE pushes(Append(mws, MwEntry(Len(mws) + 1)), n - 1)

RECURSIVE loadFrom(_, _, _, _)
\* The for loop of addPlugin from plugin i on, inside the one try block: the
\* middlewares after it and, as ghost, the plugins invoked with what each
\* registered.  A throw leaves the loop for the catch, which logs it.
loadFrom(mws, plugins, i, log) ==
    IF i > Len(plugins)
    THEN [middlewares |-> mws, invoked |-> log, caught |-> FALSE]
    ELSE LET after == pushes(mws, plugins[i].uses)
             entry == [plugin |-> i,
                       used |-> {after[k] : k \in (Len(mws) + 1)..Len(after)}]
         IN IF plugins[i].throws
            THEN [middlewares |-> after, invoked |-> Append(log, entry),
                  caught |-> TRUE]
            ELSE loadFrom(after, plugins, i + 1, Append(log, entry))

\* The state after the load l of addPlugin(plugins): addPlugin returns
\* normally, the catch having swallowed what was thrown.
Loaded(l, plugins) ==
    /\ middlewares' = l.middlewares
    /\ loaded' = Append(loaded, [plugins |-> plugins, invoked |-> l.invoked,
                                 caught |-> l.caught, thrown |-> FALSE])

\* addPlugin(...plugins).
AddPlugin(plugins) ==
    /\ ~listening
    /\ Len(loaded) < MaxLoads
    /\ Loaded(loadFrom(middlewares, plugins, 1, <<>>), plugins)
    /\ UNCHANGED <<routes, listening, stream, requestData, out, peer, errors,
                   limiter, client,
                   ctxs, stack,
                   pending, handled, crashed>>

\* -------------------------------------------------------------- connection
\* The buffer of a connection becomes data: each connection's callback has
\* a buffer of its own.
Buffered(socket, data) ==
    IF socket = 1 THEN requestData' = data /\ UNCHANGED requestData2
    ELSE requestData2' = data /\ UNCHANGED requestData

\* The state after handleRequest returned r for the message data: the
\* buffer is emptied once handleRequest has returned (no other callback can
\* see it in between); an exception leaves the callback before that.
Handed(r, socket, data) ==
    /\ Becomes(r.m)
    /\ handled' = Append(handled, r.info)
    /\ crashed' = r.thrown
    /\ Buffered(socket, IF r.thrown THEN data ELSE <<>>)

\* The body of the "data" callback once the chunk is appended: a complete
\* message goes to handleRequest, which runs up to the first entry of user
\* code.
Deliver(socket, data) ==
    IF MessageComplete(data)
    THEN Handed(handleRequest(Machine, socket, middlewares, routes, data),
                socket, data)
    ELSE /\ Buffered(socket, data)
         /\ UNCHANGED <<middlewares, out, out2, ctxs, stack, handled, crashed>>

\* The "data" callback of handleConnection for the next k atoms of the
\* stream.
Data(k) ==
    /\ listening /\ ~crashed /\ stack = <<>>
    /\ errors = <<>>
    /\ k \in 1..Len(stream)
    /\ stream' = SubSeq(stream, k + 1, Len(stream))
    /\ Deliver(1, requestData \o SubSeq(stream, 1, k))
    /\ UNCHANGED <<routes, listening, pending, loaded, stream2, errors,
                   limiter, client>>

\* The same callback on the second connection.
DataPeer(k) ==
    /\ listening /\ ~crashed /\ stack = <<>>
    /\ k \in 1..Len(stream2)
    /\ stream2' = SubSeq(stream2, k + 1, Len(stream2))
    /\ Deliver(2, requestData2 \o SubSeq(stream2, 1, k))
    /\ UNCHANGED <<routes, listening, pending, loaded, stream, errors,
                   limiter, client>>

\* The "error" callback of handleConnection: the error is logged and nothing
\* else is done.  Node closes a socket right after its "error" event, so no
\* "data" event follows it.  Ghost: the number of calls made on the socket
\* before the event is recorded.
SocketError ==
    /\ listening /\ ~crashed /\ stack = <<>>
    /\ errors = <<>>
    /\ errors' = Append(errors, [calls |-> Len(out)])
    /\ UNCHANGED <<middlewares, routes, listening, stream, requestData, out,
                   peer, ctxs, stack, pending, handled, crashed, loaded,
                   limiter, client>>

\* --------------------------------------------------------------- user code
\* The running frame: the innermost invocation of user code.
Top == stack[Len(stack)]

\* User code may make another call: its request has calls left.
MayCall == stack # <<>> /\ ~crashed /\ ctxs[Top.ctx].steps < MaxSteps

Counted(m, c) == [m EXCEPT !.ctxs[c].steps = @ + 1]

frozen == <<routes, listening, stream, requestData, stream2,
            requestData2, errors, handled, crashed, loaded, limiter, client>>

\* The running entry calls next().  Ghost: the entry's count of advances.
UserNext ==
    /\ MayCall
    /\ Becomes(next([Counted(Machine, Top.ctx) EXCEPT
                        !.ctxs[Top.ctx].adv[Top.entry] = @ + 1], Top.ctx))
    /\ UNCHANGED <<frozen, pending>>

\* The texts user code sends.
Bodies == {StringBody(<<"h", "i">>)}

\* The running entry calls res.send(body).  Ghost: the entry's count of
\* sends.
UserSend(body) ==
    /\ MayCall
    /\ Becomes(resSend([Counted(Machine, Top.ctx) EXCEPT
                           !.ctxs[Top.ctx].sent[Top.entry] = @ + 1], Top.ctx, body))
    /\ UNCHANGED <<frozen, pending>>

\* The running entry calls res.json(data).
UserJson ==
    /\ MayCall
    /\ Becomes(resJson([Counted(Machine, Top.ctx) EXCEPT
                           !.ctxs[Top.ctx].sent[Top.entry] = @ + 1], Top.ctx,
                       <<"{", "}">>))
    /\ UNCHANGED <<frozen, pending>>

\* The running entry calls res.setHeader(key, value).
UserSetHeader(key, value) ==
    /\ MayCall
    /\ Becomes(resSetHeader(Counted(Machine, Top.ctx), Top.ctx, key, value))
    /\ UNCHANGED <<frozen, pending>>

\* The running entry assigns res.statusCode.
UserStatus(code) ==
    /\ MayCall
    /\ Becomes([Counted(Machine, Top.ctx) EXCEPT !.ctxs[Top.ctx].statusCode = code])
    /\ UNCHANGED <<frozen, pending>>

\* The running entry hands a callback to an asynchronous operation, as
\* static() does with fs.stat: the callback runs once the stack is empty.
UserDefer ==
    /\ MayCall
    /\ [ctx |-> Top.ctx, entry |-> Top.entry] \notin pending
    /\ pending' = pending \cup {[ctx |-> Top.ctx, entry |-> Top.entry]}
    /\ Becomes(Counted(Machine, Top.ctx))
    /\ UNCHANGED frozen

\* The running entry throws.  It was invoked inside the try of next(), whose
\* catch answers 500; next() then returns to its caller.  (A callback is
\* not inside any try: the callbacks of the model do not throw.)  Ghost:
\* the entry and the number of socket calls made before it threw.
UserThrow ==
    /\ stack # <<>> /\ ~crashed
    /\ ~Top.cb
    /\ Becomes(catchError([Machine EXCEPT
                              !.stack = SubSeq(@, 1, Len(@) - 1),
                              !.ctxs[Top.ctx].threw =
                                  @ \cup {[entry |-> Top.entry, at |-> Len(out)]}],
                          Top.ctx))
    /\ UNCHANGED <<frozen, pending>>

\* Mutant of UserReturn: when the last frame returns and nothing was sent
\* for its request, a default reply is written.
UserReturnReplies ==
    /\ stack # <<>> /\ ~crashed
    /\ IF Len(stack) = 1 /\ ctxs[Top.ctx].sends = <<>>
       THEN Becomes(resSend([Machine EXCEPT !.stack = <<>>], Top.ctx,
                            StringBody(<<"Not Found">>)))
       ELSE /\ stack' = SubSeq(stack, 1, Len(stack) - 1)
            /\ UNCHANGED <<middlewares, ctxs, out, out2>>
    /\ UNCHANGED <<frozen, pending>>

\* The running entry or callback returns.
UserReturn ==
    /\ stack # <<>> /\ ~crashed
    /\ stack' = SubSeq(stack, 1, Len(stack) - 1)
    /\ UNCHANGED <<frozen, pending, middlewares, ctxs, out, out2>>

\* A deferred callback is run by the event loop.
RunCallback(cb) ==
    /\ stack = <<>> /\ ~crashed
    /\ cb \in pending
    /\ pending' = pending \ {cb}
    /\ stack' = <<Frame(cb.ctx, cb.entry, TRUE)>>
    /\ UNCHANGED <<frozen, middlewares, ctxs, out, out2>>

\* The status codes user code assigns.
UserCodes == {201}

UserStep ==
    \/ UserNext
    \/ \E body \in Bodies : UserSend(body)
    \/ \E code \in UserCodes : UserStatus(code)
    \/ UserDefer
    \/ UserThrow
    \/ UserReturn
    \/ \E cb \in pending : RunCallback(cb)

\* ------------------------------------------------------------------ inputs
\* The text of a request: request line, header lines, blank line, body.
Message(requestLine, headerLines, body) ==
    Join(<<requestLine>> \o headerLines, <<CRLF>>) \o HeaderEnd \o body

RequestLine(method, target) == <<method, SP>> \o target \o <<SP, "HTTP/1.1">>

\* The route templates of the setup.
SetupTemplates == {<<"/", ":", "x">>}

\* The requests sent to the server: a path with a route, one without, with
\* GET and HEAD, and request lines that lack a token.
Targets == {<<"/", "a">>, <<"/", "a", "/", "b">>}

RequestLines ==
    {RequestLine(mth, t) : mth \in {"GET", "HEAD"}, t \in Targets}
    \cup {<<"GET", SP, "/", "a">>, <<"GET", SP, SP, "HTTP/1.1">>, <<"GET">>}

Streams == {Message(l, <<>>, <<>>) : l \in RequestLines}

\* A server just constructed, and a connection nothing has arrived on.
ServerIdle ==
    /\ middlewares = <<>>
    /\ routes = NoRoutes
    /\ listening = FALSE
    /\ requestData = <<>>
    /\ out = <<>>
    /\ requestData2 = <<>>
    /\ out2 = <<>>
    /\ errors = <<>>
    /\ ctxs = <<>>
    /\ stack = <<>>
    /\ pending = {}
    /\ handled = <<>>
    /\ crashed = FALSE
    /\ loaded = <<>>

\* No rate limiter is installed.
NoLimiter ==
    /\ options = [limit |-> 1, windowMs |-> 1]
    /\ requests = [ip \in {} |-> 0]
    /\ now = 0
    /\ served = <<>>

\* No error: the name and the status of error.response (0: the error has no
\* response), and the message.
NoError == [name |-> "", status |-> 0, message |-> ""]

\* No call of request() has been made.  Ghost fields: the configs handed to
\* fetch, one an attempt; the outcome of the last attempt; the delays
\* waited; the interceptor lists as they were when they were applied.
NoCall ==
    [pc |-> "idle", config |-> <<>>, retries |-> 0, delay |-> 0,
     response |-> <<>>, error |-> NoError, sent |-> <<>>, last |-> "",
     waits |-> <<>>, requestSeen |-> <<>>, responseSeen |-> <<>>]

NoClient ==
    /\ interceptors = [request |-> <<>>, response |-> <<>>]
    /\ retryOptions = [retries |-> 0, delay |-> 1]
    /\ promise = NoCall

\* The server alone.
Idle == ServerIdle /\ NoLimiter /\ NoClient

\* No second connection is opened.
Fresh == Idle /\ stream2 = <<>>

Init == Fresh /\ stream \in Streams

Next ==
    \/ Use
    \/ \E path \in SetupTemplates : Get(path)
    \/ \E path \in SetupTemplates : Route("head", path)
    \/ Listen
    \/ \E k \in 1..Len(stream) : Data(k)
    \/ UserStep

Spec == Init /\ [][Next]_vars

\* ---------------------------------------------------------- route dispatch
\* The server with routes only: templates with a parameter after a literal
\* segment and alone, with "+" and with "." in a literal segment, and with
\* one parameter name used twice, registered for GET and POST in any order,
\* and one request for a path.  The handler replies or returns.
RouteTemplates ==
    {<<"/", "a", "/", ":", "x">>, <<"/", ":", "x">>, <<"/", "a", "+">>,
     <<"/", "a", ".", "a">>, <<"/", ":", "x", "/", ":", "x">>}

RouteTargets ==
    {<<"/", "a", "/", "b">>, <<"/", "a", "/", "a">>, <<"/", "a", "+">>,
     <<"/", "a", ".", "a">>, <<"/", "a">>}

RouteStreams ==
    {Message(RequestLine(mth, t), <<>>, <<>>) :
        mth \in {"GET", "POST"}, t \in RouteTargets}

InitRoute == Fresh /\ stream \in RouteStreams

NextRoute ==
    \/ \E path \in RouteTemplates : Get(path)
    \/ \E path \in RouteTemplates : Route("post", path)
    \/ Listen
    \/ \E k \in 1..Len(stream) : Data(k)
    \/ \E body \in Bodies : UserSend(body)
    \/ UserReturn

SpecRoute == InitRoute /\ [][NextRoute]_vars

\* ----------------------------------------------------------------- framing
\* One connection and what a client may send on it: a POST whose header
\* block has no Content-Length, one written "Content-Length: 2", one written
\* "Content-Length:2" and an "X-Content-Length: 2" instead, and one that
\* declares ten bytes; with two bytes of body, with ten that hold a
\* "\r\n\r\n", or without; followed or not by a second request.  The
\* stream arrives in chunks of any size.  A handler returns without a reply.
FrameHeaders ==
    {<<>>,
     <<<<"Content-Length", COLON, SP, "2">>>>,
     <<<<"Content-Length", COLON, SP, "1", "0">>>>,
     <<<<"Content-Length", COLON, "2">>>>,
     <<<<"X-Content-Length", COLON, SP, "2">>>>}

FrameBodies == {<<>>, <<"h", "i">>, <<"abc", CRLF, CRLF, "abc">>}

SecondMessages == {<<>>, Message(RequestLine("GET", <<"/", "a">>), <<>>, <<>>)}

FrameStreams ==
    {Message(RequestLine("POST", <<"/", "a">>), hs, b) \o second :
        hs \in FrameHeaders, b \in FrameBodies, second \in SecondMessages}

InitFrame == Fresh /\ stream \in FrameStreams

NextFrame ==
    \/ \E path \in SetupTemplates : Get(path)
    \/ Listen
    \/ \E k \in 1..Len(stream) : Data(k)
    \/ UserReturn

SpecFrame == InitFrame /\ [][NextFrame]_vars

\* ----------------------------------------------------------------- parsing
\* One POST request to a server with middlewares and a route: targets with
\* a valid and with a malformed percent escape and with query strings whose
\* keys occur once and several times; no body, a JSON body that parses and
\* one that does not.  A middleware advances; the handler sets the status,
\* replies or returns.
ParseTargets ==
    {<<"/", "a">>, <<"/", "%61">>, <<"/", "%">>,
     <<"/", "a", "?", "k", "=", "1">>,
     <<"/", "a", "?", "k", "=", "1", "&", "j", "=", "2", "&", "k", "=", "3">>,
     <<"/", "a", "?", "k", "&", "&", "k", "=", "1", "&", "k", "=", "2">>}

JsonHeaders(length) ==
    <<<<"Content-Type", COLON, SP, "application/json">>,
      <<"Content-Length", COLON, SP, length>>>>

ParsePayloads ==
    {[headers |-> <<>>, body |-> <<>>],
     [headers |-> JsonHeaders("2"), body |-> <<"{", "}">>],
     [headers |-> JsonHeaders("1"), body |-> <<"{">>]}

ParseStreams ==
    {Message(RequestLine("POST", t), pl.headers, pl.body) :
        t \in ParseTargets, pl \in ParsePayloads}

InitParse == Fresh /\ stream \in ParseStreams

NextParse ==
    \/ Use
    \/ \E path \in SetupTemplates : Route("post", path)
    \/ Listen
    \/ \E k \in 1..Len(stream) : Data(k)
    \/ UserNext
    \/ \E code \in UserCodes : UserStatus(code)
    \/ \E body \in Bodies : UserSend(body)
    \/ UserReturn

SpecParse == InitParse /\ [][NextParse]_vars

\* -------------------------------------------------------- response headers
\* One GET or HEAD request to a server with or without a route, or a
\* request line that lacks its tokens: the handler sets headers of its own,
\* among them Content-Length and Connection in either spelling, sends a
\* string or a Buffer, or throws.
UserHeaders ==
    {<<"Content-Length", <<"5">>>>, <<"content-length", <<"5">>>>,
     <<"Connection", <<"keep-alive">>>>, <<"X-A", <<"1">>>>}

HeaderBodies == {StringBody(<<"h", "i">>), BufferBody(<<"h", "i">>)}

HeaderStreams ==
    {Message(RequestLine(mth, <<"/", "a">>), <<>>, <<>>) : mth \in {"GET", "HEAD"}}
    \cup {Message(<<"GET">>, <<>>, <<>>)}

InitHeaders == Fresh /\ stream \in HeaderStreams

NextHeaders ==
    \/ \E path \in SetupTemplates : Get(path)
    \/ Listen
    \/ \E k \in 1..Len(stream) : Data(k)
    \/ \E h \in UserHeaders : UserSetHeader(h[1], h[2])
    \/ \E body \in HeaderBodies : UserSend(body)
    \/ UserJson
    \/ UserThrow
    \/ UserReturn

SpecHeaders == InitHeaders /\ [][NextHeaders]_vars

\* ---------------------------------------------------------- plugin loading
\* The setup of a server with plugins: addPlugin with any list of plugins,
\* use() before and after it, then listen().  No connection is made.
NextPlugin ==
    \/ \E plugins \in PluginLists(MaxPlugins) : AddPlugin(plugins)
    \/ Use
    \/ Listen

InitPlugin == Fresh /\ stream = <<>>

SpecPlugin == InitPlugin /\ [][NextPlugin]_vars

\* ------------------------------------------------------------ connections
\* Two connections, a request on each, and middlewares that may suspend
\* their chain as static() does: the callbacks of the two interleave, and
\* the first socket may fail.
PeerStreams ==
    {Message(RequestLine("GET", <<"/", "a", "/", "b">>), <<>>, <<>>),
     Message(<<"GET">>, <<>>, <<>>)}

InitConns ==
    /\ Idle
    /\ stream = Message(RequestLine("GET", <<"/", "a">>), <<>>, <<>>)
    /\ stream2 \in PeerStreams

NextConns ==
    \/ Use
    \/ \E path \in SetupTemplates : Get(path)
    \/ Listen
    \/ \E k \in 1..Len(stream) : Data(k)
    \/ \E k \in 1..Len(stream2) : DataPeer(k)
    \/ SocketError
    \/ UserNext
    \/ \E body \in Bodies : UserSend(body)
    \/ UserDefer
    \/ \E cb \in pending : RunCallback(cb)
    \/ UserReturn

SpecConns == InitConns /\ [][NextConns]_vars

\* ------------------------------------------------------------ rate limiter
MaxLimit == 2
MaxWindow == 2
MaxNow == 3
MaxRequests == 4

\* The addresses requests come from.
IPs == {"1.1.1.1", "2.2.2.2"}

\* A header that is absent, a socket without a remote address.
Undefined == "undefined"

\* The address a request is counted under: the x-forwarded-for header when
\* it is a string, else the socket's remote address when it is one, else ''.
IpOf(ipHeader, socketAddress) ==
    IF ipHeader # Undefined THEN ipHeader
    ELSE IF socketAddress # Undefined THEN socketAddress
    ELSE ""

\* requests.set(ip, record).
MapSet(map, ip, record) ==
    [i \in DOMAIN map \cup {ip} |-> IF i = ip THEN record ELSE map[i]]

\* The rateLimiter middleware at time t for a request counted under ip:
\* the map after it, the status code it leaves in res, the value of its
\* X-RateLimit-Remaining header, and whether it called next() (it calls
\* res.send otherwise).
rateLimiter(opts, map, t, ip) ==
    LET pass(record) ==
            [requests |-> MapSet(map, ip, record), statusCode |-> 200,
             remaining |-> opts.limit - record.count, advanced |-> TRUE]
    IN IF ip = ""
       THEN [requests |-> map, statusCode |-> 400, remaining |-> 0,
             advanced |-> FALSE]
       ELSE IF ip \in DOMAIN map
       THEN IF t - map[ip].timestamp < opts.windowMs
            THEN IF map[ip].count >= opts.limit
                 THEN [requests |-> map, statusCode |-> 429, remaining |-> 0,
                       advanced |-> FALSE]
                 ELSE pass([count |-> map[ip].count + 1,
                            timestamp |-> map[ip].timestamp])
            ELSE pass([count |-> 1, timestamp |-> t])
       ELSE pass([count |-> 1, timestamp |-> t])

\* A request reaches the rateLimiter middleware.  Ghost: the call is
\* recorded with the time, the address, the map before and after, and what
\* the middleware did.
Limit(ipHeader, socketAddress) ==
    /\ Len(served) < MaxRequests
    /\ LET ip == IpOf(ipHeader, socketAddress)
           r == rateLimiter(options, requests, now, ip)
       IN /\ requests' = r.requests
          /\ served' = Append(served, [ip |-> ip, at |-> now, before |-> requests,
                                       after |-> r.requests,
                                       statusCode |-> r.statusCode,
                                       advanced |-> r.advanced])
    /\ UNCHANGED <<options, now, express, client>>

\* Time passes.
Tick ==
    /\ now < MaxNow
    /\ now' = now + 1
    /\ UNCHANGED <<options, requests, served, express, client>>

\* The plugin installed with any limit and window, and requests that come
\* from two addresses, named by the header or by the socket, or from none.
InitLimit ==
    /\ ServerIdle /\ NoClient
    /\ stream = <<>> /\ stream2 = <<>>
    /\ options \in [limit : 0..MaxLimit, windowMs : 1..MaxWindow]
    /\ requests = <<>>
    /\ now = 0
    /\ served = <<>>

NextLimit ==
    \/ \E ipHeader \in IPs \cup {Undefined}, socketAddress \in {"1.1.1.1", Undefined} :
           Limit(ipHeader, socketAddress)
    \/ Tick

SpecLimit == InitLimit /\ [][NextLimit]_vars

\* ------------------------------------------------------------------ client
MaxRetries == 2
MaxInterceptors == 2

\* The k-th interceptor registered: a function of the model that leaves its
\* mark k at the end of what it is given (a config or a response).
Interceptor(k, x) == Append(x, k)

RECURSIVE ApplyAllReversed(_, _)
\* Mutant of ApplyAll: the last interceptor registered is applied first.
ApplyAllReversed(list, x) ==
    IF list = <<>> THEN x
    ELSE Interceptor(Head(list), ApplyAllReversed(Tail(list), x))

RECURSIVE ApplyAll(_, _)
\* for (const interceptor of list) x = interceptor(x).
ApplyAll(list, x) ==
    IF list = <<>> THEN x
    ELSE ApplyAll(Tail(list), Interceptor(Head(list), x))

\* useRequestInterceptor(interceptor).
UseRequestInterceptor ==
    /\ Len(interceptors.request) < MaxInterceptors
    /\ interceptors' = [interceptors EXCEPT
                           !.request = Append(@, Len(@) + 1)]
    /\ UNCHANGED <<retryOptions, promise, express, limiter>>

\* useResponseInterceptor(interceptor).
UseResponseInterceptor ==
    /\ Len(interceptors.response) < MaxInterceptors
    /\ interceptors' = [interceptors EXCEPT
                           !.response = Append(@, Len(@) + 1)]
    /\ UNCHANGED <<retryOptions, promise, express, limiter>>

\* What fetch may do: resolve with a response of some status, or reject
\* with a network failure or with the abort of the timeout.
Outcomes == {"200", "404", "500", "FetchError", "AbortError"}

\* The error thrown inside the try of requestInternal: the rejection of
\* fetch, or the Error made for a response that is not ok.
Thrown(outcome) ==
    IF outcome \in {"FetchError", "AbortError"}
    THEN [name |-> outcome, status |-> 0, message |-> outcome]
    ELSE [name |-> "Error", status |-> 0,
          message |-> "Request failed with status"]

\* requestInternal once fetch has settled: the response, or the error its
\* catch throws in place of whatever was thrown inside the try, a new Error
\* with a message and nothing else.
requestInternal(outcome) ==
    IF outcome = "200" THEN [ok |-> TRUE, error |-> NoError]
    ELSE [ok |-> FALSE,
          error |-> [name |-> "Error", status |-> 0,
                     message |-> IF Thrown(outcome).name = "AbortError"
                                 THEN "Request timed out"
                                 ELSE "Network error"]]

\* The test of the catch of requestWithRetry.
ShouldRetry(retries, error) ==
    retries > 0 /\ (error.name = "FetchError" \/ error.status >= 500)

RECURSIVE Pow2(_)
\* Math.pow(2, n).
Pow2(n) == IF n = 0 THEN 1 ELSE 2 * Pow2(n - 1)

\* request(config) up to the await of the first fetch: the request
\* interceptors are applied to the config, and requestWithRetry passes it
\* to requestInternal.
Request ==
    /\ promise.pc = "idle"
    /\ LET processedConfig == ApplyAll(interceptors.request, <<>>)
       IN promise' = [promise EXCEPT !.pc = "attempt",
                                     !.config = processedConfig,
                                     !.retries = retryOptions.retries,
                                     !.delay = retryOptions.delay,
                                     !.sent = <<processedConfig>>,
                                     !.requestSeen = interceptors.request]
    /\ UNCHANGED <<interceptors, retryOptions, express, limiter>>

\* The fetch of the running attempt settles, and the client runs up to its
\* next fetch or to the end of request().  On a response that is ok the
\* response interceptors are applied and the promise is fulfilled; on an
\* error requestWithRetry either waits for its timer and calls itself, which
\* starts the next fetch, or throws, which rejects the promise.
Settle(outcome) ==
    /\ promise.pc = "attempt"
    /\ LET r == requestInternal(outcome)
           backoffDelay ==
               promise.delay * Pow2(retryOptions.retries - promise.retries)
       IN promise' =
              IF r.ok
              THEN [promise EXCEPT !.pc = "fulfilled", !.last = outcome,
                                   !.response = ApplyAll(interceptors.response, <<>>),
                                   !.responseSeen = interceptors.response]
              ELSE IF ShouldRetry(promise.retries, r.error)
              THEN [promise EXCEPT !.retries = @ - 1, !.last = outcome,
                                   !.delay = backoffDelay,
                                   !.waits = Append(@, backoffDelay),
                                   !.sent = Append(@, promise.config)]
              ELSE [promise EXCEPT !.pc = "rejected", !.last = outcome,
                                   !.error = [name |-> "Error", status |-> 0,
                                              message |-> "Request failed after retries"]]
    /\ UNCHANGED <<interceptors, retryOptions, express, limiter>>

\* A client with any number of retries, interceptors registered before or
\* while a request is under way, and one request.
InitClient ==
    /\ ServerIdle /\ NoLimiter
    /\ stream = <<>> /\ stream2 = <<>>
    /\ interceptors = [request |-> <<>>, response |-> <<>>]
    /\ retryOptions \in [retries : 0..MaxRetries, delay : {1}]
    /\ promise = NoCall

NextClient ==
    \/ UseRequestInterceptor
    \/ UseResponseInterceptor
    \/ Request
    \/ \E outcome \in Outcomes : Settle(outcome)

SpecClient == InitClient /\ [][NextClient]_vars

\* ------------------------------------------------------ claims on the chain
\* The chain handleRequest built for context c: what was invoked, then what
\* is left.
ChainOf(c) == ctxs[c].log \o ctxs[c].queue

\* The place of entry e in the chain of context c.
PlaceOf(c, e) == CHOOSE k \in 1..Len(ChainOf(c)) : ChainOf(c)[k] = e

\* The record of the handleRequest call that created context c.
CallOf(c) == handled[CHOOSE i \in 1..Len(handled) : handled[i].ctx = c]

\* The request of context c arrived with method HEAD.
IsHead(c) == CallOf(c).finds[1].method = "HEAD"

ErrorBody == StringBody(<<"Internal Server Error">>)
NotFoundBody == StringBody(<<"Not Found">>)
BadRequestBody == StringBody(<<"Bad Request">>)

\* The status line of a response with the given code and reason.
StatusLine(code, reason) == <<"HTTP/1.1", SP>> \o code \o <<SP, reason, CRLF>>

\* The socket calls from the k-th on.
OutFrom(k) == SubSeq(out, k, Len(out))

\* C1 (as claimed): send-once.  Whatever the middlewares and the handler
\* do, at most one response is written: the first end() of the socket is
\* the last call made on it.
C1_SendOnce ==
    \A i \in 1..Len(out) : out[i].op = "end" => i = Len(out)

NoOtherAdvance(c, e) ==
    /\ ctxs[c].adv[e] = 0
    /\ \A k \in 1..(PlaceOf(c, e) - 1) : ctxs[c].adv[ChainOf(c)[k]] <= 1

C3_OrderAsClaimed ==
    \A c \in 1..Len(ctxs) :
        /\ \A k \in 1..Len(ctxs[c].log) :
               k <= Len(middlewares) => ctxs[c].log[k] = MwEntry(k)
        /\ \A k \in 2..Len(ctxs[c].log) : ctxs[c].adv[ctxs[c].log[k - 1]] >= 1

\* Every entry of the chain has called advance at most once.
AdvanceAtMostOnce(c) == \A e \in DOMAIN ctxs[c].adv : ctxs[c].adv[e] <= 1

\* The advances made by the entries before place k.
RECURSIVE AdvancesBefore(_, _)
AdvancesBefore(c, k) ==
    IF k <= 1 THEN 0
    ELSE ctxs[c].adv[ChainOf(c)[k - 1]] + AdvancesBefore(c, k - 1)

\* C3 (amended): the global middlewares are invoked in registration order,
\* none skipped, before the handler; entry k+1 is invoked only after the
\* entries 1..k have called advance k times between them; and when no entry
\* calls advance more than once, entry k+1 is invoked only if entry k called
\* advance, so that nothing after an entry that never advances is invoked.
C3_Order ==
    \A c \in 1..Len(ctxs) :
        /\ \A k \in 1..Len(ctxs[c].log) :
               IF k <= Len(middlewares) THEN ctxs[c].log[k] = MwEntry(k)
               ELSE k = Len(middlewares) + 1 /\ ctxs[c].log[k].kind # "mw"
        /\ Len(ChainOf(c)) = Len(middlewares) + 1
        /\ \A k \in 2..Len(ctxs[c].log) : AdvancesBefore(c, k) >= k - 1
        /\ AdvanceAtMostOnce(c) =>
               \A k \in 2..Len(ctxs[c].log) : ctxs[c].adv[ctxs[c].log[k - 1]] >= 1

\* Witness of C3: two global middlewares and the handler were invoked, each
\* middleware having advanced once.
C3_Witness ==
    \E c \in 1..Len(ctxs) :
        /\ Len(ctxs[c].log) = 3
        /\ AdvanceAtMostOnce(c)

\* ------------------------------------------------- claims on route dispatch
\* The segments of a path or of a template: the texts between its "/".
SegmentsOf(path) == split(path, <<SLASH>>)

\* A template segment of the form :name.
IsParam(seg) == Len(seg) >= 2 /\ seg[1] = COLON

\* The path of the request of context c, as it stands in the request line.
PathOf(c) == Pathname(ctxs[c].req.url)

\* The path has as many segments as the template and equals it in every
\* literal segment.
Agrees(template, path) ==
    LET t == SegmentsOf(template)
        p == SegmentsOf(path)
    IN /\ Len(t) = Len(p)
       /\ \A i \in 1..Len(t) : IsParam(t[i]) \/ t[i] = p[i]

\* Each :name of the template mapped to the path segment at its position.
PositionalParams(template, path) ==
    LET t == SegmentsOf(template)
        p == SegmentsOf(path)
        at == {i \in 1..Len(t) : IsParam(t[i])}
    IN [name \in {Tail(t[i]) : i \in at} |->
           p[CHOOSE i \in at : Tail(t[i]) = name]]

\* The last entry of the chain built for context c.
FinalEntry(c) == ChainOf(c)[Len(ChainOf(c))]

\* C4 (route dispatch): for every registered route and every request of the
\* route's method whose path has the template's number of segments and equals
\* it in every literal segment, with no earlier route of the method that the
\* path agrees with as well, the chain ends with the route's handler and
\* req.params maps each :name to the path segment at its position.
C4_Dispatch ==
    \A c \in 1..Len(ctxs) : \A mth \in MethodNames : \A k \in 1..Len(routes[mth]) :
        (/\ ctxs[c].req.method = <<mth>>
         /\ Agrees(routes[mth][k].path, PathOf(c))
         /\ \A j \in 1..(k - 1) : ~Agrees(routes[mth][j].path, PathOf(c)))
        => /\ FinalEntry(c) = routes[mth][k].handler
           /\ ctxs[c].req.params = PositionalParams(routes[mth][k].path, PathOf(c))

\* The route whose handler ends the chain of context c is route k of method
\* mth.
ResolvedTo(c, mth, k) == FinalEntry(c) = routes[mth][k].handler

\* C5 (anchored matching): a request resolves to a route only if its path
\* has exactly as many segments as the route's template, neither more nor
\* fewer.
C5_Anchored ==
    \A c \in 1..Len(ctxs) : \A mth \in MethodNames : \A k \in 1..Len(routes[mth]) :
        ResolvedTo(c, mth, k) =>
            Len(SegmentsOf(PathOf(c))) = Len(SegmentsOf(routes[mth][k].path))

\* The HEAD fallback applies to the request of context c: no HEAD route
\* resolves its path and a GET route does.
HeadFallback(c) ==
    /\ IsHead(c)
    /\ ~findRoute(routes, "HEAD", CallOf(c).finds[1].pathname).found
    /\ findRoute(routes, "GET", CallOf(c).finds[1].pathname).found

RECURSIVE HeadsOnly(_)
\* What a HEAD request must put on the socket for a list of sends: for each
\* the calls of the same send under GET, less the bytes of the body.
HeadsOnly(sends) ==
    IF sends = <<>> THEN <<>>
    ELSE LET s0 == Head(sends)
             get == SocketCalls(s0.statusCode, s0.headers, s0.body, FALSE)
             text == get[1].data
             head == IF s0.body.buffer THEN text
                     ELSE SubSeq(text, 1, Len(text) - Len(s0.body.text))
         IN <<Write(head), End>> \o HeadsOnly(Tail(sends))

\* C6: a HEAD request to a path with a GET route and no HEAD route runs the
\* chain of the same GET request (req.method reads GET, the handler and the
\* parameters are the GET route's), and each send writes the status line
\* and the headers the GET request would get, Content-Length being the byte
\* length of the body passed to send, and no byte of the body.
C6_HeadFallback ==
    \A c \in 1..Len(ctxs) : HeadFallback(c) =>
        LET get == findRoute(routes, "GET", CallOf(c).finds[1].pathname)
        IN /\ ctxs[c].req.method = <<"GET">>
           /\ ChainOf(c) = middlewares \o <<get.handler>>
           /\ ctxs[c].req.params = get.params
           /\ out = HeadsOnly(ctxs[c].sends)
           /\ \A k \in 1..Len(ctxs[c].sends) :
                  /\ out[2 * k - 1].data[Len(out[2 * k - 1].data)] = CRLF
                  /\ indexOf(out[2 * k - 1].data,
                             <<"Content-Length", COLON, SP>>
                             \o toString(byteLength(ctxs[c].sends[k].body.text))
                             \o <<CRLF>>) # 0

\* Witness of C6: under the fallback the GET route's handler has sent a body.
C6_Witness ==
    \E c \in 1..Len(ctxs) :
        /\ HeadFallback(c)
        /\ \E e \in DOMAIN ctxs[c].sent : e.kind = "route" /\ ctxs[c].sent[e] = 1
        /\ stack = <<>>

\* No route resolves the request of context c, the HEAD fallback included,
\* and every global middleware has advanced, none has sent or thrown.
Unmatched(c) ==
    LET f == CallOf(c).finds[1]
    IN /\ ~findRoute(routes, f.method, f.pathname).found
       /\ f.method = "HEAD" => ~findRoute(routes, "GET", f.pathname).found
       /\ \A i \in 1..Len(middlewares) :
              /\ ctxs[c].adv[MwEntry(i)] >= 1
              /\ ctxs[c].sent[MwEntry(i)] = 0
       /\ ctxs[c].threw = {}

RequestLineOf(raw) ==
    IF indexOf(raw, <<CRLF>>) = 0 THEN raw
    ELSE SubSeq(raw, 1, indexOf(raw, <<CRLF>>) - 1)

\* The number of non-empty tokens of a line: the places where a run of
\* characters other than the space starts.
TokenCount(line) ==
    Cardinality({i \in 1..Len(line) :
                    line[i] # SP /\ (i = 1 \/ line[i - 1] = SP)})

\* C8: a message whose request line has fewer than three non-empty tokens
\* is answered 400 "Bad Request"; findRoute is not called for it, no context
\* and no chain are made for it, no entry is invoked.
C8_Malformed ==
    \A i \in 1..Len(handled) :
        TokenCount(RequestLineOf(handled[i].raw)) < 3 =>
            /\ handled[i].refused
            /\ handled[i].finds = <<>>
            /\ handled[i].ctx = 0
            /\ ctxs = <<>> /\ stack = <<>> /\ pending = {}
            /\ out = SocketCalls(400, <<<<"Content-Type", <<"text/plain">>>>>>,
                                 BadRequestBody, FALSE)
            /\ OccursAt(out[1].data, StatusLine(<<"4", "0", "0">>, "Bad Request"), 1)

\* Witness of C8: a request line of two tokens was handled, with global
\* middlewares and a route registered.
C8_Witness ==
    \E i \in 1..Len(handled) :
        /\ TokenCount(RequestLineOf(handled[i].raw)) = 2
        /\ Len(middlewares) = 2
        /\ RouteCount(routes) > 0

\* ------------------------------------------------------ claims on the framer
\* The length the Content-Length header of the request in the data declares,
\* read off the header fields as a header block is read (name, ":", value,
\* white space around them apart): 0 when there is no such header.
DeclaredLength(data) ==
    LET headerLines == split(split(data, HeaderEnd)[1], <<CRLF>>)
        headers == ParseHeaders(Tail(headerLines), NoHeaders)
    IN IF <<"content-length">> \in DOMAIN headers
       THEN parseInt(headers[<<"content-length">>])
       ELSE 0

\* The bytes of the data that follow the first header terminator.
BodyBytes(data) ==
    byteLength(SubSeq(data, indexOf(data, HeaderEnd) + Len(HeaderEnd), Len(data)))

\* The header terminator is in the data and the body bytes after it are at
\* least the declared length.
DeclaredComplete(data) ==
    /\ indexOf(data, HeaderEnd) # 0
    /\ BodyBytes(data) >= DeclaredLength(data)

\* C9 (framing boundary): whatever the chunks, a message is handed to
\* handleRequest only when the header terminator and at least the declared
\* number of body bytes are in it, and the data callback leaves no message
\* in the buffer that has reached that point.
C9_Framing ==
    /\ \A i \in 1..Len(handled) : DeclaredComplete(handled[i].raw)
    /\ ~crashed => ~DeclaredComplete(requestData)

\* C10 (single-use framer): on the connection handleRequest runs at most
\* once and at most one request/response pair is made, whatever data events
\* follow the first message.
C10_SingleUse ==
    /\ Len(handled) <= 1
    /\ Len(ctxs) <= 1

\* ----------------------------------------------------- claims on the plugins
\* Plugin i of the call ld of addPlugin was invoked.
Invoked(ld, i) == \E k \in 1..Len(ld.invoked) : ld.invoked[k].plugin = i

\* Plugin i of the call ld was invoked and threw.
Threw(ld, i) == Invoked(ld, i) /\ ld.plugins[i].throws

\* C11 (plugin isolation): in every call of addPlugin, each plugin after one
\* that threw is still invoked, and addPlugin does not throw.
C11_Isolation ==
    \A n \in 1..Len(loaded) :
        /\ ~loaded[n].thrown
        /\ \A i \in 1..Len(loaded[n].plugins) :
               Threw(loaded[n], i) =>
                   \A j \in (i + 1)..Len(loaded[n].plugins) : Invoked(loaded[n], j)

\* C12 (plugin abandonment): the global middleware list holds no middleware
\* that a plugin registered before it threw.
C12_Abandoned ==
    \A n \in 1..Len(loaded) : \A k \in 1..Len(loaded[n].invoked) :
        Threw(loaded[n], loaded[n].invoked[k].plugin) =>
            \A e \in loaded[n].invoked[k].used : e \notin Range(middlewares)

\* ------------------------------------------------- claims on the header block
\* The writes on the socket that begin a response, in order.
HeadWrites ==
    SelectSeq(out, LAMBDA call : call.op = "write" /\ call.data # <<>>
                                /\ call.data[1] = "HTTP/1.1")

\* The header fields of a response head: the lines between the status line
\* and the blank line, each a name, ": " and a value.
FieldsOf(head) == Tail(split(split(head, HeaderEnd)[1], <<CRLF>>))

\* Header names are compared without regard to case.
IsContentLength(name) == name \in {"Content-Length", "content-length"}
IsConnection(name) == name \in {"Connection", "connection"}

\* The value of a header field.
ValueOf(field) == SubSeq(field, 4, Len(field))

\* C13 (forced headers): every response carries Connection: close and a
\* Content-Length equal to the byte length of the body passed to send, and
\* carries no other Content-Length or Connection value, whatever headers the
\* caller set before.
C13_Forced ==
    \A c \in 1..Len(ctxs) :
        (Len(ctxs) = 1 /\ Len(HeadWrites) = Len(ctxs[c].sends)) =>
            \A k \in 1..Len(ctxs[c].sends) :
                LET fields == FieldsOf(HeadWrites[k].data)
                    length == toString(byteLength(ctxs[c].sends[k].body.text))
                IN /\ \E i \in 1..Len(fields) :
                          IsContentLength(fields[i][1]) /\ ValueOf(fields[i]) = length
                   /\ \E i \in 1..Len(fields) :
                          IsConnection(fields[i][1]) /\ ValueOf(fields[i]) = <<"close">>
                   /\ \A i \in 1..Len(fields) :
                          /\ IsContentLength(fields[i][1]) => ValueOf(fields[i]) = length
                          /\ IsConnection(fields[i][1]) => ValueOf(fields[i]) = <<"close">>

\* ------------------------------------------------------ claims on the parser
\* C14 (no crash from a bad request): every complete message is either
\* answered with the fixed 400 or goes on to the chain; no exception leaves
\* handleRequest for the data callback.
C14_NoCrash ==
    /\ ~crashed
    /\ \A i \in 1..Len(handled) : handled[i].refused \/ handled[i].ctx # 0

\* The request of context c says its body is JSON and the body is not.
InvalidJson(c) ==
    /\ <<"content-type">> \in DOMAIN ctxs[c].req.headers
    /\ Includes(ctxs[c].req.headers[<<"content-type">>], "application/json")
    /\ CallOf(c).body \notin {<<"1">>, <<"{", "}">>, <<"{", "\"a\"", ":", "1", "}">>}

\* The entry that ends the chain of a request: the handler of the route
\* that resolves it, or the 404 handler.
EndOfChain(c) ==
    LET f == CallOf(c).finds[1]
        route == findRoute(routes, f.method, f.pathname)
    IN IF route.found THEN route.handler ELSE NotFoundEntry

\* The status codes the responses of context c may carry when the parser
\* sets none: the default, those the user code assigns, and the 404 of the
\* built-in handler when no route resolves the request.
StatusOfHandlers(c) ==
    {200} \cup UserCodes \cup (IF EndOfChain(c) = NotFoundEntry THEN {404} ELSE {})

\* C15 (invalid JSON body): for a request whose content-type contains
\* application/json and whose body is not valid JSON, req.body is null, the
\* chain is the one built for any request (the global middlewares, then the
\* handler), and every response written is one the chain sent, with the
\* status the handler set or the default, never one produced by the parser.
C15_InvalidJson ==
    \A c \in 1..Len(ctxs) :
        InvalidJson(c) =>
            /\ ctxs[c].req.body = [kind |-> "null"]
            /\ ~CallOf(c).refused
            /\ ChainOf(c) = middlewares \o <<EndOfChain(c)>>
            /\ Len(HeadWrites) = Len(ctxs[c].sends)
            /\ \A k \in 1..Len(ctxs[c].sends) :
                   /\ ctxs[c].sends[k].statusCode \in StatusOfHandlers(c)
                   /\ SubSeq(HeadWrites[k].data, 1, 5)
                          = <<"HTTP/1.1", SP>> \o toString(ctxs[c].sends[k].statusCode)

\* Witness of C15: a request with an invalid JSON body went through a
\* middleware to the handler, which replied with the default status.
C15_Witness ==
    \E c \in 1..Len(ctxs) :
        /\ InvalidJson(c)
        /\ Len(ctxs[c].log) = 2
        /\ ctxs[c].log[2].kind = "route"
        /\ Len(ctxs[c].sends) = 1
        /\ ctxs[c].sends[1].statusCode = 200

\* The pieces of the query string of context c that hold a pair.
PairsOf(c) ==
    SelectSeq(split(Search(ctxs[c].req.url), <<"&">>), LAMBDA piece : piece # <<>>)

\* The key and the value of a pair, the value empty without "=".
KeyOf(piece) ==
    IF indexOf(piece, <<"=">>) = 0 THEN piece
    ELSE SubSeq(piece, 1, indexOf(piece, <<"=">>) - 1)

TextOf(piece) ==
    IF indexOf(piece, <<"=">>) = 0 THEN <<>>
    ELSE SubSeq(piece, indexOf(piece, <<"=">>) + 1, Len(piece))

RECURSIVE ValuesOf(_, _)
\* The values the pairs give to a key, in order of occurrence.
ValuesOf(pairs, key) ==
    IF pairs = <<>> THEN <<>>
    ELSE (IF KeyOf(Head(pairs)) = key THEN <<TextOf(Head(pairs))>> ELSE <<>>)
         \o ValuesOf(Tail(pairs), key)

Agreeing(c, mth) ==
    {k \in 1..Len(routes[mth]) : Agrees(routes[mth][k].path, PathOf(c))}

\* The method the request of context c arrived with.
MethodOf(c) == CallOf(c).finds[1].method

\* C17 (first match wins): when several routes of the request's method
\* match the path, the request resolves to the one registered earliest; and
\* a request resolves to a route of another method only as a HEAD request
\* falling back to a GET route.
C17_FirstMatch ==
    \A c \in 1..Len(ctxs) :
        /\ Cardinality(Agreeing(c, MethodOf(c))) >= 2 =>
               \E k \in Agreeing(c, MethodOf(c)) :
                   /\ \A j \in Agreeing(c, MethodOf(c)) : k <= j
                   /\ ResolvedTo(c, MethodOf(c), k)
        /\ \A mth \in MethodNames : \A k \in 1..Len(routes[mth]) :
               ResolvedTo(c, mth, k) =>
                   mth = MethodOf(c) \/ (MethodOf(c) = "HEAD" /\ mth = "GET")

\* C18 (literal segments): a request resolves to a route only if its path
\* equals the template in every segment that is not a :name, character for
\* character.
C18_Literal ==
    \A c \in 1..Len(ctxs) : \A mth \in MethodNames : \A k \in 1..Len(routes[mth]) :
        ResolvedTo(c, mth, k) => Agrees(routes[mth][k].path, PathOf(c))

\* ------------------------------------------------ claims on the message body
\* The text after the first header terminator of the data.
AfterHead(data) ==
    SubSeq(data, indexOf(data, HeaderEnd) + Len(HeaderEnd), Len(data))

\* The first n bytes of a text, when n bytes end at a character of it.
FirstBytes(text, n) ==
    {SubSeq(text, 1, k) : k \in {j \in 0..Len(text) : byteLength(SubSeq(text, 1, j)) = n}}

\* C19 (message body extent): the body handed to the body parser is exactly
\* the Content-Length bytes that follow the first "\r\n\r\n" of the message,
\* none when the header is absent.
C19_BodyExtent ==
    \A i \in 1..Len(handled) :
        ~handled[i].refused =>
            handled[i].body \in FirstBytes(AfterHead(handled[i].raw),
                                           DeclaredLength(handled[i].raw))

\* ------------------------------------------------- claims on the chain cursor
\* Each entry of the chain of context c was invoked once at most, and the
\* invocations are no more than the entries.
InvokedOnce(c) ==
    /\ \A i, j \in 1..Len(ctxs[c].log) : i # j => ctxs[c].log[i] # ctxs[c].log[j]
    /\ Len(ctxs[c].log) <= Len(middlewares) + 1

\* A step in which user code of context c calls advance while no entry
\* remains invokes nothing and writes nothing.
AdvanceOnEmpty(c) ==
    (ctxs[c].queue = <<>> /\ ctxs'[c].adv # ctxs[c].adv) =>
        /\ ctxs'[c].log = ctxs[c].log
        /\ ctxs'[c].queue = <<>>
        /\ stack' = stack
        /\ out' = out

\* C20 (chain cursor): within one request each entry of the chain is invoked
\* at most once, however often and from wherever (the entry itself or a
\* callback it deferred) advance is called, so a chain of n entries makes at
\* most n invocations; advance called when no entry remains has no effect.
C20_Cursor ==
    /\ [](\A c \in 1..Len(ctxs) : InvokedOnce(c))
    /\ [][\A c \in 1..Len(ctxs) : AdvanceOnEmpty(c)]_vars

\* Witness of C20: the whole chain of a middleware and a route handler was
\* invoked and the handler, the last entry, called advance.
C20_Witness ==
    \E c \in 1..Len(ctxs) :
        /\ Len(middlewares) >= 1
        /\ ctxs[c].queue = <<>>
        /\ FinalEntry(c).kind = "route"
        /\ ctxs[c].adv[FinalEntry(c)] >= 1

\* ------------------------------------------------ claims on a stalled chain
\* The chain of the first request has stalled: an entry was invoked, all
\* user code has returned, no callback is pending, no entry has sent or
\* thrown, and the 404 handler was not reached.
Stalled ==
    /\ Len(ctxs) >= 1
    /\ ctxs[1].log # <<>>
    /\ stack = <<>>
    /\ pending = {}
    /\ \A e \in DOMAIN ctxs[1].sent : ctxs[1].sent[e] = 0
    /\ ctxs[1].threw = {}
    /\ NotFoundEntry \notin Range(ctxs[1].log)

\* C21 (stalled chain): once the chain has stalled, no byte of a response is
\* ever written and the socket is never ended; no timeout or default reply
\* comes from the server.
C21_Stalled == [](Stalled => [](out = <<>>))

\* Witness of C21: a middleware was invoked and returned without advancing
\* or sending; the handler after it was never invoked.
C21_Witness ==
    /\ Stalled
    /\ ctxs[1].queue # <<>>
    /\ \A e \in DOMAIN ctxs[1].adv : ctxs[1].adv[e] = 0

\* ------------------------------------------------ claims on the registries
\* The entry that ends the chain of context c: the handler of the route
\* found, or the 404 handler.
LastOf(c) == ChainOf(c)[Len(ChainOf(c))]

\* C22: handling requests leaves the global middleware list and the route
\* table as the setup left them: no step taken once the server listens
\* changes either, and the chain of every request, however many were handled
\* before it, is the whole list of global middlewares in registration order
\* followed by one final handler.
C22_ReadOnly ==
    /\ [](\A c \in DOMAIN ctxs :
            ChainOf(c) = middlewares \o <<LastOf(c)>>)
    /\ [][listening => UNCHANGED <<middlewares, routes>>]_vars

\* Two middlewares are registered, a first request was handled, and a later
\* request has run both of them and its final handler.
C22_Witness ==
    /\ Len(middlewares) = 2
    /\ Len(ctxs) = 2
    /\ ctxs[1].log # <<>>
    /\ ctxs[2].queue = <<>>
    /\ Len(ctxs[2].log) = 3

\* ------------------------------------------------ claims on the connections
RECURSIVE SendsOn(_, _)
\* The calls of res.send made by the first n contexts for a socket.
SendsOn(socket, n) ==
    IF n = 0 THEN 0
    ELSE SendsOn(socket, n - 1)
         + (IF ctxs[n].socket = socket THEN Len(ctxs[n].sends) ELSE 0)

\* The 400 replies made for a socket.
RefusedOn(socket) ==
    Cardinality({i \in DOMAIN handled :
                    handled[i].refused /\ handled[i].socket = socket})

\* The responses ended on a socket.
EndCalls(calls) == Cardinality({i \in DOMAIN calls : calls[i].op = "end"})

\* The running code belongs to context c.
Running(c) == stack # <<>> /\ Top.ctx = c

\* C23: when the callbacks of several connections interleave, the code
\* running for one connection advances no other context's chain (what was
\* invoked and what is left stay as they were, in order), and the responses
\* on each socket are those its own contexts sent, plus the 400 replies made
\* for it.
C23_Independent ==
    /\ [](/\ EndCalls(out) = SendsOn(1, Len(ctxs)) + RefusedOn(1)
          /\ EndCalls(out2) = SendsOn(2, Len(ctxs)) + RefusedOn(2))
    /\ [][\A c \in DOMAIN ctxs :
            ~Running(c) =>
                /\ ctxs'[c].queue = ctxs[c].queue
                /\ ctxs'[c].log = ctxs[c].log
                /\ ctxs'[c].req = ctxs[c].req
                /\ ctxs'[c].sends = ctxs[c].sends]_vars

\* The chain of the first connection is suspended in a middleware, with
\* entries left to run, while the second connection's request has been
\* answered on its own socket.
C23_Witness ==
    /\ Len(ctxs) = 2
    /\ ctxs[1].socket = 1 /\ ctxs[2].socket = 2
    /\ [ctx |-> 1, entry |-> ctxs[1].log[1]] \in pending
    /\ ctxs[1].queue # <<>>
    /\ ctxs[2].sends # <<>>
    /\ out = <<>> /\ out2 # <<>>

\* ----------------------------------------------- claims on a socket error
\* C24: once a socket has had its "error" event, no response is written for
\* its connection: no call is made on the socket after the event.
C24_SocketError ==
    \A i \in DOMAIN errors : Len(out) = errors[i].calls

\* ------------------------------------------- claims on the end of a response
RECURSIVE GroupsOf(_)
\* The calls made on a socket, cut after each end().
GroupsOf(calls) ==
    IF calls = <<>> THEN <<>>
    ELSE LET ends == {i \in DOMAIN calls : calls[i].op = "end"}
         IN IF ends = {} THEN <<calls>>
            ELSE LET i == CHOOSE i \in ends : \A j \in ends : i <= j
                 IN <<SubSeq(calls, 1, i)>>
                    \o GroupsOf(SubSeq(calls, i + 1, Len(calls)))

\* The terminal sends made for the i-th message handled, in order: the 400
\* reply of the server, or the calls of res.send of its context (those of
\* res.json, of the 404 handler and of the catch of next() among them).
\* The body is suppressed when the request arrived with method HEAD.
RepliesOf(i) ==
    IF handled[i].refused
    THEN <<[statusCode |-> 400,
            headers |-> <<<<"Content-Type", <<"text/plain">>>>>>,
            body |-> BadRequestBody, suppressed |-> FALSE]>>
    ELSE IF handled[i].ctx = 0 THEN <<>>
    ELSE LET c == handled[i].ctx
         IN [k \in DOMAIN ctxs[c].sends |->
                [statusCode |-> ctxs[c].sends[k].statusCode,
                 headers |-> ctxs[c].sends[k].headers,
                 body |-> ctxs[c].sends[k].body,
                 suppressed |-> IsHead(c)]]

\* The calls of one group are writes followed by one end().
WritesThenEnd(g) ==
    /\ Len(g) >= 2
    /\ g[Len(g)].op = "end"
    /\ \A i \in 1..(Len(g) - 1) : g[i].op = "write"

RECURSIVE Written(_)
\* The text the writes of a group put on the socket.
Written(g) ==
    IF g = <<>> THEN <<>>
    ELSE (IF g[1].op = "write" THEN g[1].data ELSE <<>>) \o Written(Tail(g))

\* The text of a group is the status line of the reply, header lines
\* among which every header of the reply, the blank line, and then the body
\* unless it is suppressed.
Carries(g, reply) ==
    LET text == Written(g)
        blank == indexOf(text, HeaderEnd)
        start == <<"HTTP/1.1", SP>> \o toString(reply.statusCode) \o <<SP>>
    IN /\ SubSeq(text, 1, Len(start)) = start
       /\ blank # 0
       /\ \A h \in DOMAIN reply.headers :
              reply.headers[h][1] \notin {"Content-Length", "Connection"} =>
                  \E f \in DOMAIN FieldsOf(text) :
                      FieldsOf(text)[f]
                          = <<reply.headers[h][1], COLON, SP>> \o reply.headers[h][2]
       /\ SubSeq(text, blank + Len(HeaderEnd), Len(text))
              = IF reply.suppressed THEN <<>> ELSE reply.body.text

\* C25: every terminal send writes the status line, the headers and the
\* blank line, then the body if it is not suppressed, and then ends the
\* socket: the calls on the socket are, for each send in order, writes
\* carrying exactly that text followed by one end().
C25_SendCloses ==
    LET groups == GroupsOf(out)
        replies == IF handled = <<>> THEN <<>> ELSE RepliesOf(1)
    IN /\ Len(groups) = Len(replies)
       /\ \A k \in DOMAIN groups :
              WritesThenEnd(groups[k]) /\ Carries(groups[k], replies[k])

\* A handler has set a header and sent a Buffer, written after the head and
\* before the end, and then thrown: the 500 reply followed.
C25_Witness ==
    /\ Len(ctxs) = 1
    /\ Len(ctxs[1].sends) = 2
    /\ ctxs[1].sends[1].body.buffer
    /\ ctxs[1].sends[1].headers # <<>>
    /\ ctxs[1].sends[2].statusCode = 500
    /\ Len(out) = 5

\* ------------------------------------------- claims on the parameter names
\* C26: after any sequence of route registrations, no route of the table
\* has a name twice among its parameter names.
C26_UniqueNames ==
    \A mth \in MethodNames : \A r \in DOMAIN routes[mth] :
        \A i, j \in DOMAIN routes[mth][r].keys :
            routes[mth][r].keys[i] = routes[mth][r].keys[j] => i = j

\* ------------------------------------------------ claims on the rate limiter
\* The requests of an address the limiter passed on in the window that
\* began at time stamp.
PassedIn(ip, stamp) ==
    {k \in DOMAIN served :
        /\ served[k].advanced
        /\ served[k].ip = ip
        /\ served[k].after[ip].timestamp = stamp}

\* C27: for every limit, window and address, the requests of the address
\* passed on within one window (from the timestamp of its record until
\* windowMs has elapsed) never exceed limit; a request that arrives in the
\* window once limit is reached is answered 429 and not passed on; and a
\* request changes the count of no other address.
C27_Cap ==
    /\ \A ip \in IPs : \A stamp \in 0..MaxNow :
           Cardinality(PassedIn(ip, stamp)) <= options.limit
    /\ \A k \in DOMAIN served :
           LET ip == served[k].ip
               map == served[k].before
           IN /\ (/\ ip \in DOMAIN map
                  /\ served[k].at - map[ip].timestamp < options.windowMs
                  /\ map[ip].count >= options.limit)
                     => served[k].statusCode = 429 /\ ~served[k].advanced
              /\ \A other \in IPs \ {ip} :
                     /\ other \in DOMAIN map <=> other \in DOMAIN served[k].after
                     /\ other \in DOMAIN map => served[k].after[other] = map[other]

\* ------------------------------------------------------ claims on the client
\* The attempts made: the calls of fetch.
Attempts == Len(promise.sent)

\* The last attempt failed with a network failure or a status of 500 or
\* more.
RetryableFailure == promise.last \in {"FetchError", "500"}

\* C28: an attempt that fails with a network failure or a status >= 500
\* while retries remain is followed by another attempt: the request is
\* rejected on such a failure only once retries + 1 attempts were made, and
\* never are more than retries + 1 attempts made.
C28_Retry ==
    /\ Attempts <= retryOptions.retries + 1
    /\ (promise.pc = "rejected" /\ RetryableFailure) =>
           Attempts = retryOptions.retries + 1

\* C29: the request interceptors registered when request() is called are
\* applied to the config in registration order before the first attempt,
\* every attempt being made with the config they produced; the response
\* interceptors registered when the response arrives are applied to it in
\* registration order; and when the request is rejected none of them has
\* run.
C29_Interceptors ==
    /\ \A a \in DOMAIN promise.sent : promise.sent[a] = promise.requestSeen
    /\ promise.pc = "fulfilled" => promise.response = promise.responseSeen
    /\ promise.pc = "rejected" => promise.response = <<>>

\* A request with two interceptors of each kind is fulfilled.
C29_Witness ==
    /\ promise.pc = "fulfilled"
    /\ promise.sent = << <<1, 2>> >>
    /\ promise.response = <<1, 2>>

====
